---- MODULE Spec2Model ----
(***************************************************************************)
(* Store-provisioning pipeline of src/app.py: the JSON progress store, the *)
(* asynchronous API (api_create_store + run_automation_background on the   *)
(* thread pool), the synchronous route (create_store) and the four stage   *)
(* operations of src/services.                                             *)
(***************************************************************************)
EXTENDS Integers, Sequences, FiniteSets, TLC

\* ---------------------------------------------------------------- bounds
\* Requests sent to POST /api/stores and POST /create-store together.
MaxRequests == 2
\* Store operations (load, open 'w', dump) during which another thread runs;
\* every other store operation runs without a thread switch inside it.
MaxSplit == 1
\* Items the catalog source can deliver for one import.
MaxCatalog == 1
\* External calls (stage operations, quit) that fail in one run of the system.
MaxFaults == 1
\* Requests being handled at the same time (accepted and not yet returned).
MaxInFlight == 2
\* Requests of the run that saturates the pool.
MaxPool == 5
\* Earlier requests whose store_id a request may draw again.
MaxReuse == 1
\* Queries (status, list, statistics) answered in one run.
MaxQueries == 1
\* Products in the list handed to the keyword filter.
MaxListed == 2

\* ------------------------------------------------------ program constants
\* ThreadPoolExecutor(max_workers=3)
max_workers == 3
\* EbayShopifyImporter clamps max_products into 5..30.
MinProducts == 5
MaxProducts == 30
\* api_create_store forces product_count to 5.
ForcedCount == 5

Min(a, b) == IF a < b THEN a ELSE b
Max(a, b) == IF a > b THEN a ELSE b

None == "None"

\* One thread per request: the Flask handler, and for an accepted API request
\* the pool worker that runs its job afterwards.
Threads == 1..Max(MaxRequests, MaxPool)

StageNames == <<"create_account", "access_token", "import_products", "transfer_ownership">>


VARIABLES
    db,        \* database/automation_progress.json: the last list of entries it held
    dbValid,   \* FALSE while the file is truncated, partly written or corrupt:
               \* a read then finds no list in it
    pc,        \* per request: position in its handler / orchestrator
    loc,       \* per request: local variables of the handler / orchestrator
    io,        \* per request: a store operation in progress (history read, file opened)
    queue,     \* executor's work queue (submitted, not yet started), FIFO
    running,   \* jobs a pool worker is executing
    drv,       \* per request: the browser that stage 1 started
    trace,     \* per request: the external calls made so far, in order
    splits,    \* store operations run with thread switches inside so far
    faults,    \* external calls that failed so far
    limit,     \* the bounds of the run: requests, requests in flight, splits, faults
    reply,     \* the queries answered so far and the response to the last one
    svc        \* a call of a service method followed step by step: its arguments,
               \* its position, what it has done and its result

vars == <<db, dbValid, pc, loc, io, queue, running, drv, trace, splits, faults, limit, reply, svc>>

\* ------------------------------------------------------------ dictionaries
\* dict.get(k, d)
Get(e, k, d) == IF k \in DOMAIN e THEN e[k] ELSE d

\* dict.update(u)
DictUpdate(e, u) == [k \in (DOMAIN e) \cup (DOMAIN u) |-> IF k \in DOMAIN u THEN u[k] ELSE e[k]]

\* ------------------------------------------------------------------ store
\* load_history(): the parsed file; [] when the file cannot be parsed.
load_history == IF dbValid THEN db ELSE <<>>

\* save_history(entry), the list that is dumped.
save_history(history, entry) == Append(history, entry)

\* Index of the first entry whose store_id is sid, 0 when there is none.
FirstIndex(history, sid) ==
    IF \E i \in 1..Len(history) : Get(history[i], "store_id", None) = sid
    THEN CHOOSE i \in 1..Len(history) :
            /\ Get(history[i], "store_id", None) = sid
            /\ \A k \in 1..(i - 1) : Get(history[k], "store_id", None) # sid
    ELSE 0

\* get_entry_by_store_id(store_id); None when not found.
get_entry_by_store_id(sid) ==
    LET i == FirstIndex(load_history, sid)
    IN  IF i = 0 THEN None ELSE load_history[i]

\* update_entry_status(store_id, updates), the list that is dumped: the first
\* matching entry updated, the list unchanged when no entry matches.
update_entry_status(history, sid, updates) ==
    LET i == FirstIndex(history, sid)
    IN  IF i = 0 THEN history
        ELSE [history EXCEPT ![i] = DictUpdate(history[i], updates)]

\* generate_store_id(): str(uuid.uuid4())[:8], eight hexadecimal digits of a
\* random number, compared with nothing: for request j a value not drawn
\* before, or the value one of the limit.reuse requests before it drew.
generate_store_id(j) == {ToString(k) : k \in Max(1, j - limit.reuse)..j}

\* ------------------------------------------------------------------ text
\* Request fields are strings, kept as sequences of one-character strings.
Contains(s, c) == \E i \in 1..Len(s) : s[i] = c

RECURSIVE LStrip(_)
LStrip(s) == IF s # <<>> /\ Head(s) = " " THEN LStrip(Tail(s)) ELSE s

RECURSIVE RStrip(_)
RStrip(s) == IF s # <<>> /\ s[Len(s)] = " " THEN RStrip(SubSeq(s, 1, Len(s) - 1)) ELSE s

\* str.strip()
Strip(s) == RStrip(LStrip(s))

\* api_get_store_status(store_id): 404 when get_entry_by_store_id finds no
\* entry, else the response built from the entry, with the success data of a
\* completed entry and the error data of a failed one.
api_get_store_status(store_id) ==
    LET i == FirstIndex(load_history, store_id)
        entry == load_history[i]
        response == [code |-> 200,
                     store_id |-> store_id,
                     status |-> Get(entry, "status", "processing"),
                     current_step |-> Get(entry, "current_step", "queued"),
                     message |-> Get(entry, "message", "Processing..."),
                     progress_percent |-> Get(entry, "progress_percent", 0),
                     created_at |-> Get(entry, "timestamp", None)]
        completed == IF Get(entry, "status", None) = "completed"
                     THEN DictUpdate(response,
                              [store_url |-> Get(entry, "store_url", None),
                               admin_url |-> Get(entry, "admin_url", None),
                               products_count |-> Get(entry, "products_imported", 0),
                               completed_at |-> Get(entry, "completed_at", None)])
                     ELSE response
    IN  IF i = 0
        THEN [code |-> 404, error |-> "Store not found"]
        ELSE IF Get(entry, "status", None) = "failed"
        THEN DictUpdate(completed, [error |-> Get(entry, "error", "Unknown error"),
                                    failed_at |-> Get(entry, "failed_at", None)])
        ELSE completed

\* ------------------------------------------------------- stage operations
\* What each service call can hand back to app.py.  raised = TRUE: the call
\* ends with an exception.

\* ShopifyAccountCreator.create_store: (store_data, self.driver) after
\* extract_store_info produced a store URL, or an exception after the
\* service has quit its own browser.
ShopifyAccountCreator_create_store ==
    { [raised |-> TRUE,  store_data |-> <<>>, driver |-> None],
      [raised |-> FALSE,
       store_data |-> [store_url |-> "https://shop.myshopify.com/", store_id |-> "shop",
                       admin_url |-> "https://shop.myshopify.com/admin", created_at |-> "ts"],
       driver |-> "driver"] }

\* AccessTokenManager.get_token: the token, or None after any failed step (its
\* own except clause swallows every exception); no step works without a driver.
AccessTokenManager_get_token(driver) ==
    IF driver = None THEN {None} ELSE {"shpat_token", None}

\* EbayShopifyImporter.__init__: max_products = min(max(max_products, 5), 30)
ClampProducts(count) == Min(Max(count, MinProducts), MaxProducts)

\* EbayShopifyImporter.import_products: success False when no product was
\* loaded, else success True with the products whose upload succeeded.
EbayShopifyImporter_import_products(count) ==
    { [raised |-> TRUE, success |-> FALSE, products |-> 0],
      [raised |-> FALSE, success |-> FALSE, products |-> 0] }
    \cup { [raised |-> FALSE, success |-> TRUE, products |-> k] :
             k \in 0..Min(limit.catalog, ClampProducts(count)) }

\* ProductImporter.import_products: result['products'] on success, [] otherwise
\* (the list is kept by its length).
ProductImporter_import_products(result) ==
    IF result.success THEN result.products ELSE 0

\* OwnershipTransfer.transfer_to_customer: a dict with success True, a dict with
\* success False after a failed step, or the exception of driver.quit() in its
\* finally clause.
OwnershipTransfer_transfer_to_customer ==
    { [raised |-> TRUE,  success |-> FALSE],
      [raised |-> FALSE, success |-> TRUE],
      [raised |-> FALSE, success |-> FALSE] }

\* WebDriver.quit(): returns, or raises; after it raised the browser process
\* may be gone or still there.
WebDriver_quit ==
    { [raised |-> FALSE, after |-> "closed"],
      [raised |-> TRUE,  after |-> "closed"],
      [raised |-> TRUE,  after |-> "open"] }

\* The requests whose handler or pipeline has started and not returned.
InFlight == {t \in Threads : pc[t] \notin {"new", "rejected", "done"}}

\* The requests still to come.
Pending == {t \in Threads : pc[t] = "new" /\ t <= limit.requests}

\* Where a run may spend a failing call or a preemption: with few enough
\* requests in flight and few enough still to come.
Quiet == Cardinality(InFlight) <= limit.solo /\ Cardinality(Pending) <= limit.rest

\* The same for a malformed request t, at its arrival.
QuietFor(t) ==
    /\ Cardinality(InFlight \cup {t}) <= limit.solo
    /\ Cardinality(Pending \ {t}) <= limit.rest

\* An external call fails only while fewer than MaxFaults calls have failed.
Inject(failed) ==
    /\ failed => (faults < limit.faults /\ Quiet)
    /\ faults' = IF failed THEN faults + 1 ELSE faults

\* One external call in a request's trace.
Event(op, res, n, d) == [op |-> op, res |-> res, n |-> n, drv |-> d]

\* ------------------------------------------------------------ local state
NoLocals ==
    [user_data |-> <<>>, entry |-> <<>>, store_data |-> <<>>, browser_session |-> None,
     access_token |-> None, imported |-> 0, e |-> None, store_id |-> None]

NoIo == [phase |-> "none", history |-> <<>>]

\* No query answered yet.
NoReply == [n |-> 0, last |-> [code |-> 0]]

\* No service method is followed from inside.
NoCall == [fn |-> "none"]

\* The program after start-up: an empty history, no request yet.
InitProgram ==
    /\ reply = NoReply
    /\ db = <<>>
    /\ dbValid = TRUE
    /\ pc = [t \in Threads |-> "new"]
    /\ loc = [t \in Threads |-> NoLocals]
    /\ io = [t \in Threads |-> NoIo]
    /\ queue = <<>>
    /\ running = {}
    /\ drv = [t \in Threads |-> "none"]
    /\ trace = [t \in Threads |-> <<>>]
    /\ splits = 0
    /\ faults = 0

InitSystem ==
    /\ InitProgram
    /\ svc = NoCall

Init ==
    /\ InitSystem
    /\ limit = [requests |-> MaxRequests, inflight |-> MaxInFlight, handlers |-> MaxInFlight,
                route |-> Threads, solo |-> MaxInFlight, rest |-> MaxRequests,
                catalog |-> MaxCatalog, splits |-> MaxSplit, faults |-> MaxFaults, reuse |-> 0]


\* The API requests whose handler has not yet handed the job to the pool.
Submitting == {t \in Threads : pc[t] \in {"api_save", "api_submit"}}

\* Requests are numbered in the order in which their handlers start.
Arrives(t) ==
    /\ pc[t] = "new"
    /\ \A u \in Threads : u < t => pc[u] # "new"
    /\ t <= limit.requests
    /\ Cardinality(InFlight) < limit.inflight
    /\ Cardinality(Submitting) < limit.handlers

\* ----------------------------------------------- POST /api/stores (handler)
ApiRequests ==
    [client_name : {<<>>, <<"A">>},
     store_name : {<<" ">>, <<"F">>},
     email : {<<"a", "b">>, <<"a", "@", "b">>, <<"a", "@", "b", ".", "c">>},
     business_type : {<<"e">>},
     product_count : {1, ForcedCount}]

\* A validation that does not look at the form of the email.
ApiValidNoEmail(data) ==
    \A f \in {"client_name", "store_name", "email", "business_type"} : Strip(data[f]) # <<>>

\* api_create_store, validation of the JSON body.
ApiValid(data) ==
    /\ \A f \in {"client_name", "store_name", "email", "business_type"} : Strip(data[f]) # <<>>
    /\ Contains(Strip(data.email), "@")
    /\ Contains(Strip(data.email), ".")

\* A handler that passes the submitted product_count on.
ApiProductCountAsGiven(data) == data.product_count

\* api_create_store, product_count: forced to 5.
ApiProductCount(data) == IF data.product_count # ForcedCount THEN ForcedCount ELSE data.product_count

\* api_create_store, the user_data it builds.
ApiUserData(data) ==
    [client_name |-> Strip(data.client_name), email |-> Strip(data.email),
     store_name |-> Strip(data.store_name), business_type |-> Strip(data.business_type),
     product_category |-> "electronics", product_count |-> ApiProductCount(data),
     country |-> "US"]

\* api_create_store, the initial database entry.
ApiEntry(store_id, data) ==
    [store_id |-> store_id,
     id |-> Len(load_history) + 1,
     timestamp |-> "ts",
     user_data |-> ApiUserData(data),
     status |-> "processing",
     current_step |-> "queued",
     message |-> "Starting store creation...",
     progress_percent |-> 0,
     steps |-> <<>>,
     store_url |-> None,
     admin_url |-> None,
     products_imported |-> 0]

\* api_create_store up to the entry: validation, store_id, sequence number.
api_create_store(j) ==
    /\ Arrives(j)
    /\ \E data \in ApiRequests :
         /\ ApiValid(data) \/ QuietFor(j)
         /\ IF ApiValid(data)
            THEN /\ pc' = [pc EXCEPT ![j] = "api_save"]
                 /\ \E store_id \in generate_store_id(j) :
                       loc' = [loc EXCEPT ![j].user_data = ApiUserData(data),
                                          ![j].store_id = store_id,
                                          ![j].entry = ApiEntry(store_id, data)]
            ELSE /\ pc' = [pc EXCEPT ![j] = "rejected"]
                 /\ loc' = loc
    /\ UNCHANGED <<db, dbValid, io, queue, running, drv, trace, splits, faults, limit, reply, svc>>

\* executor.submit(run_automation_background, store_id, user_data)
executor_submit(j) ==
    /\ pc[j] = "api_submit"
    /\ queue' = Append(queue, j)
    /\ pc' = [pc EXCEPT ![j] = "queued"]
    /\ trace' = [trace EXCEPT ![j] =
                    Append(@, Event("submit", IF Cardinality(running) < max_workers
                                              THEN "idle" ELSE "busy", 0, drv[j]))]
    /\ UNCHANGED <<db, dbValid, loc, io, running, drv, splits, faults, limit, reply, svc>>

\* A pool that starts a job although max_workers jobs run.
executor_start_unbounded(j) ==
    /\ pc[j] = "queued"
    /\ queue # <<>>
    /\ Head(queue) = j
    /\ queue' = Tail(queue)
    /\ running' = running \cup {j}
    /\ pc' = [pc EXCEPT ![j] = "u10"]
    /\ UNCHANGED <<db, dbValid, loc, io, drv, trace, splits, faults, limit, reply, svc>>

\* A pool that starts any of the waiting jobs.
executor_start_any(j) ==
    /\ pc[j] = "queued"
    /\ \E i \in 1..Len(queue) :
          /\ queue[i] = j
          /\ queue' = SubSeq(queue, 1, i - 1) \o SubSeq(queue, i + 1, Len(queue))
    /\ Cardinality(running) < max_workers
    /\ running' = running \cup {j}
    /\ pc' = [pc EXCEPT ![j] = "u10"]
    /\ UNCHANGED <<db, dbValid, loc, io, drv, trace, splits, faults, limit, reply, svc>>

\* A pool worker takes the oldest submitted job; at most max_workers run.
executor_start(j) ==
    /\ pc[j] = "queued"
    /\ queue # <<>>
    /\ Head(queue) = j
    /\ Cardinality(running) < max_workers
    /\ queue' = Tail(queue)
    /\ running' = running \cup {j}
    /\ pc' = [pc EXCEPT ![j] = "u10"]
    /\ UNCHANGED <<db, dbValid, loc, io, drv, trace, splits, faults, limit, reply, svc>>

\* ------------------------------------- run_automation_background (worker)
UpdatePcs == {"u10", "u25", "u30", "u50", "u55", "u75", "u85", "u100", "u_failed"}

\* The updates dict of each update_entry_status call of run_automation_background.
Updates(p, l) ==
    CASE p = "u10" -> [current_step |-> "create_account", message |-> "Creating your store...",
                       progress_percent |-> 10]
      [] p = "u25" -> [progress_percent |-> 25,
                       shopify_store_url |-> Get(l.store_data, "store_url", None),
                       shopify_store_id |-> Get(l.store_data, "store_id", None)]
      [] p = "u30" -> [current_step |-> "access_token",
                       message |-> "Preparing store configuration...", progress_percent |-> 30]
      [] p = "u50" -> [progress_percent |-> 50]
      [] p = "u55" -> [current_step |-> "import_products", message |-> "Uploading products...",
                       progress_percent |-> 55]
      [] p = "u75" -> [progress_percent |-> 75, products_imported |-> l.imported]
      [] p = "u85" -> [current_step |-> "transfer_ownership",
                       message |-> "Finalizing setup and ownership transfer...",
                       progress_percent |-> 85]
      [] p = "u100" -> [status |-> "completed", current_step |-> "completed",
                        message |-> "Your store is ready!", progress_percent |-> 100,
                        store_url |-> l.store_data["store_url"],
                        admin_url |-> Get(l.store_data, "admin_url", None),
                        completed_at |-> "ts"]
      [] p = "u_failed" -> [status |-> "failed", message |-> "Store creation failed",
                            error |-> l.e, failed_at |-> "ts"]

\* The statement after each store operation.
AfterStore(p) ==
    CASE p = "api_save" -> "api_submit"
      [] p = "u10" -> "create_store"
      [] p = "u25" -> "u30"
      [] p = "u30" -> "get_token"
      [] p = "u50" -> "u55"
      [] p = "u55" -> "import_products"
      [] p = "u75" -> "u85"
      [] p = "u85" -> "transfer_to_customer"
      [] p \in {"u100", "u_failed", "s_save"} -> "return"

\* A handler that records the failure without closing the browser.
ErrorPcNoQuit(browser_session) == "u_failed"

\* except Exception as e: quit the browser if one is held, then record the failure.
ErrorPc(browser_session) == IF browser_session # None THEN "quit_err" ELSE "u_failed"

\* An orchestrator that keeps the browser after the token extraction.
TokenPcNoQuit(browser_session) == "u50"

\* Close browser after token extraction: if browser_session: quit().
TokenPc(browser_session) == IF browser_session # None THEN "quit" ELSE "u50"

\* store_data, browser_session = account_creator.create_store(...)
stage_create_store(j) ==
    /\ pc[j] = "create_store"
    /\ \E r \in ShopifyAccountCreator_create_store :
         /\ Inject(r.raised)
         /\ IF r.raised
            THEN /\ trace' = [trace EXCEPT ![j] = Append(@, Event("create_store", "raise", 0, drv[j]))]
                 /\ loc' = [loc EXCEPT ![j].e = "create_store failed"]
                 /\ pc' = [pc EXCEPT ![j] = ErrorPc(loc[j].browser_session)]
                 /\ drv' = drv
            ELSE /\ trace' = [trace EXCEPT ![j] = Append(@, Event("create_store", "ok", 0, drv[j]))]
                 /\ drv' = [drv EXCEPT ![j] = IF r.driver = None THEN "none" ELSE "open"]
                 /\ IF DOMAIN r.store_data = {} \/ Get(r.store_data, "store_url", None) \in {None, ""}
                    THEN /\ loc' = [loc EXCEPT ![j].store_data = r.store_data,
                                               ![j].browser_session = r.driver,
                                               ![j].e = "Failed to create store: No store URL returned"]
                         /\ pc' = [pc EXCEPT ![j] = ErrorPc(r.driver)]
                    ELSE /\ loc' = [loc EXCEPT ![j].store_data = r.store_data,
                                               ![j].browser_session = r.driver]
                         /\ pc' = [pc EXCEPT ![j] = "u25"]
    /\ UNCHANGED <<db, dbValid, io, queue, running, splits, limit, reply, svc>>

\* access_token = token_manager.get_token(store_url, driver=browser_session)
stage_get_token(j) ==
    /\ pc[j] = "get_token"
    /\ \E tok \in AccessTokenManager_get_token(loc[j].browser_session) :
         /\ Inject(tok = None)
         /\ trace' = [trace EXCEPT ![j] =
                         Append(@, Event("get_token", IF tok = None THEN "None" ELSE "ok", 0, drv[j]))]
         /\ IF tok = None
            THEN /\ loc' = [loc EXCEPT ![j].e = "Failed to retrieve access token"]
                 /\ pc' = [pc EXCEPT ![j] = ErrorPc(loc[j].browser_session)]
            ELSE /\ loc' = [loc EXCEPT ![j].access_token = tok]
                 /\ pc' = [pc EXCEPT ![j] = TokenPc(loc[j].browser_session)]
    /\ UNCHANGED <<db, dbValid, io, queue, running, drv, splits, limit, reply, svc>>

\* try: browser_session.quit(); browser_session = None  except: pass
quit_after_token(j) ==
    /\ pc[j] = "quit"
    /\ \E q \in WebDriver_quit :
         /\ Inject(q.raised)
         /\ trace' = [trace EXCEPT ![j] =
                         Append(@, Event("quit", IF q.raised THEN "raise" ELSE "ok", 0, drv[j]))]
         /\ drv' = [drv EXCEPT ![j] = q.after]
         /\ loc' = [loc EXCEPT ![j].browser_session = IF q.raised THEN @ ELSE None]
    /\ pc' = [pc EXCEPT ![j] = "u50"]
    /\ UNCHANGED <<db, dbValid, io, queue, running, splits, limit, reply, svc>>

\* imported_products = product_importer.import_products(category, count)
stage_import_products(j) ==
    /\ pc[j] = "import_products"
    /\ \E r \in EbayShopifyImporter_import_products(loc[j].user_data["product_count"]) :
         /\ Inject(r.raised \/ ~r.success)
         /\ IF r.raised
            THEN /\ trace' = [trace EXCEPT ![j] = Append(@, Event("import_products", "raise", 0, drv[j]))]
                 /\ loc' = [loc EXCEPT ![j].e = "import_products failed"]
                 /\ pc' = [pc EXCEPT ![j] = ErrorPc(loc[j].browser_session)]
            ELSE /\ trace' = [trace EXCEPT ![j] =
                                 Append(@, Event("import_products", IF r.success THEN "ok" ELSE "error",
                                                 r.products, drv[j]))]
                 /\ loc' = [loc EXCEPT ![j].imported = ProductImporter_import_products(r)]
                 /\ pc' = [pc EXCEPT ![j] = "u75"]
    /\ UNCHANGED <<db, dbValid, io, queue, running, drv, splits, limit, reply, svc>>

\* ownership_transfer.transfer_to_customer(user_data['email']); the result is dropped.
stage_transfer_to_customer(j) ==
    /\ pc[j] = "transfer_to_customer"
    /\ \E r \in OwnershipTransfer_transfer_to_customer :
         /\ Inject(r.raised \/ ~r.success)
         /\ IF r.raised
            THEN /\ trace' = [trace EXCEPT ![j] = Append(@, Event("transfer_to_customer", "raise", 0, drv[j]))]
                 /\ loc' = [loc EXCEPT ![j].e = "transfer_to_customer failed"]
                 /\ pc' = [pc EXCEPT ![j] = ErrorPc(loc[j].browser_session)]
            ELSE /\ trace' = [trace EXCEPT ![j] =
                                 Append(@, Event("transfer_to_customer", IF r.success THEN "ok" ELSE "fail",
                                                 0, drv[j]))]
                 /\ loc' = loc
                 /\ pc' = [pc EXCEPT ![j] = "u100"]
    /\ UNCHANGED <<db, dbValid, io, queue, running, drv, splits, limit, reply, svc>>

\* except Exception: if browser_session: try: browser_session.quit() except: pass
quit_on_error(j) ==
    /\ pc[j] = "quit_err"
    /\ \E q \in WebDriver_quit :
         /\ Inject(q.raised)
         /\ trace' = [trace EXCEPT ![j] =
                         Append(@, Event("quit", IF q.raised THEN "raise" ELSE "ok", 0, drv[j]))]
         /\ drv' = [drv EXCEPT ![j] = IF drv[j] = "closed" THEN "closed" ELSE q.after]
    /\ pc' = [pc EXCEPT ![j] = "u_failed"]
    /\ UNCHANGED <<db, dbValid, loc, io, queue, running, splits, limit, reply, svc>>

\* -------------------------------------------------------- store operations
\* save_history and update_entry_status both run: history = load_history();
\* change history; open(DB_PATH, 'w'); json.dump(history, f); close.  No lock is
\* taken.  The file is empty from the open until the dump is flushed.
StorePcs == UpdatePcs \cup {"api_save", "s_save"}

\* The list the store operation of request t dumps, given the list it loaded.
Dumped(t, history) ==
    IF pc[t] \in UpdatePcs
    THEN update_entry_status(history, loc[t].store_id, Updates(pc[t], loc[t]))
    ELSE save_history(history, loc[t].entry)

StoreOpName(p) == IF p \in UpdatePcs THEN "update_entry_status" ELSE "save_history"

\* The request's state once its store operation has returned.
Returned(t) ==
    LET p == AfterStore(pc[t])
    IN  /\ pc' = [pc EXCEPT ![t] = p]
        /\ trace' = [trace EXCEPT ![t] = Append(@, Event(StoreOpName(pc[t]), pc[t], 0, drv[t]))]

\* A store operation during which no other thread runs.
store_operation(t) ==
    /\ pc[t] \in StorePcs
    /\ io[t].phase = "none"
    /\ db' = Dumped(t, load_history)
    /\ dbValid' = TRUE
    /\ Returned(t)
    /\ UNCHANGED <<loc, io, queue, running, drv, splits, faults, limit, reply, svc>>

\* history = load_history() and the change of history, other threads running on.
store_load(t) ==
    /\ pc[t] \in StorePcs
    /\ io[t].phase = "none"
    /\ splits < limit.splits
    /\ Quiet
    /\ splits' = splits + 1
    /\ io' = [io EXCEPT ![t] = [phase |-> "loaded", history |-> Dumped(t, load_history)]]
    /\ UNCHANGED <<db, dbValid, pc, loc, queue, running, drv, trace, faults, limit, reply, svc>>

\* open(DB_PATH, 'w'): the file is truncated.
store_open(t) ==
    /\ io[t].phase = "loaded"
    /\ io' = [io EXCEPT ![t].phase = "opened"]
    /\ dbValid' = FALSE
    /\ UNCHANGED <<db, pc, loc, queue, running, drv, trace, splits, faults, limit, reply, svc>>

\* json.dump(history, f) and close: the bytes go to the start of the file.  When
\* another writer has written since the open, what lies beyond them stays: the
\* file is this list, or unparsable.
store_close(t) ==
    /\ io[t].phase = "opened"
    /\ \/ /\ db' = io[t].history
          /\ dbValid' = TRUE
       \/ /\ dbValid
          /\ db # io[t].history
          /\ db' = db
          /\ dbValid' = FALSE
    /\ io' = [io EXCEPT ![t] = NoIo]
    /\ Returned(t)
    /\ UNCHANGED <<loc, queue, running, drv, splits, faults, limit, reply, svc>>

\* ------------------------------------------- POST /create-store (inline run)
SyncRequests ==
    [email : {<<>>, <<"a", "b">>, <<"a", "@", "b">>},
     store_name : {<<>>, <<"F">>},
     product_count : {0, 1, 51}]

\* create_store, validation of the form.
SyncValid(form) ==
    /\ Strip(form.email) # <<>>
    /\ Strip(form.store_name) # <<>>
    /\ Contains(Strip(form.email), "@")
    /\ ~(form.product_count < 1 \/ form.product_count > 50)

SyncUserData(form) ==
    [email |-> Strip(form.email), store_name |-> Strip(form.store_name), country |-> "US",
     business_type |-> "ecommerce", product_category |-> "electronics",
     product_count |-> form.product_count]

\* automation_log['steps'].append({'step': name, 'status': 'started', ...})
StepStarted(log, name) ==
    [log EXCEPT !["steps"] = Append(@, [step |-> name, status |-> "started", timestamp |-> "ts"])]

\* automation_log['steps'][-1]['status'] = 'completed' and the fields more.
StepCompleted(log, more) ==
    [log EXCEPT !["steps"] =
        [@ EXCEPT ![Len(@)] = DictUpdate(DictUpdate(@, [status |-> "completed"]), more)]]

\* except Exception as e: status, error, failed_at of automation_log.
LogFailed(log, e) == DictUpdate(log, [status |-> "failed", error |-> e, failed_at |-> "ts"])

\* create_store up to stage 1: validation, automation_log, first step record.
create_store(s) ==
    /\ Arrives(s)
    /\ s \in limit.route
    /\ \E form \in SyncRequests :
         /\ SyncValid(form) \/ QuietFor(s)
         /\ IF SyncValid(form)
            THEN /\ pc' = [pc EXCEPT ![s] = "s_create_store"]
                 /\ loc' = [loc EXCEPT
                       ![s].user_data = SyncUserData(form),
                       ![s].entry = StepStarted(
                           [id |-> Len(load_history) + 1, timestamp |-> "ts",
                            user_data |-> SyncUserData(form), status |-> "in_progress",
                            steps |-> <<>>, store_url |-> None, store_id |-> None],
                           "create_account")]
            ELSE /\ pc' = [pc EXCEPT ![s] = "rejected"]
                 /\ loc' = loc
    /\ UNCHANGED <<db, dbValid, io, queue, running, drv, trace, splits, faults, limit, reply, svc>>

\* The except clause of create_store: where it goes, with the failure logged.
RouteErrorPc(browser_session) == IF browser_session # None THEN "s_quit_err" ELSE "s_save"

RouteRaise(s, l, e) ==
    /\ loc' = [loc EXCEPT ![s] = [l EXCEPT !.e = e, !.entry = LogFailed(l.entry, e)]]
    /\ pc' = [pc EXCEPT ![s] = RouteErrorPc(l.browser_session)]

route_create_store(s) ==
    /\ pc[s] = "s_create_store"
    /\ \E r \in ShopifyAccountCreator_create_store :
         /\ Inject(r.raised)
         /\ IF r.raised
            THEN /\ trace' = [trace EXCEPT ![s] = Append(@, Event("create_store", "raise", 0, drv[s]))]
                 /\ drv' = drv
                 /\ RouteRaise(s, loc[s], "create_store failed")
            ELSE LET l == [loc[s] EXCEPT !.store_data = r.store_data, !.browser_session = r.driver]
                 IN  /\ trace' = [trace EXCEPT ![s] = Append(@, Event("create_store", "ok", 0, drv[s]))]
                     /\ drv' = [drv EXCEPT ![s] = IF r.driver = None THEN "none" ELSE "open"]
                     /\ IF DOMAIN r.store_data = {} \/ Get(r.store_data, "store_url", None) \in {None, ""}
                        THEN RouteRaise(s, l, "Failed to create store: No store URL returned")
                        ELSE IF r.driver = None
                        THEN RouteRaise(s, l, "CRITICAL: No browser session received from createStore")
                        ELSE /\ loc' = [loc EXCEPT ![s] = [l EXCEPT !.entry =
                                   StepStarted(
                                       DictUpdate(
                                           StepCompleted(l.entry,
                                               [data |-> [store_url |-> Get(r.store_data, "store_url", None),
                                                          store_id |-> Get(r.store_data, "store_id", None),
                                                          admin_url |-> Get(r.store_data, "admin_url", None),
                                                          created_at |-> Get(r.store_data, "created_at", None)]]),
                                           [store_url |-> Get(r.store_data, "store_url", None),
                                            store_id |-> Get(r.store_data, "store_id", None)]),
                                       "access_token")]]
                             /\ pc' = [pc EXCEPT ![s] = "s_get_token"]
    /\ UNCHANGED <<db, dbValid, io, queue, running, splits, limit, reply, svc>>

route_get_token(s) ==
    /\ pc[s] = "s_get_token"
    /\ \E tok \in AccessTokenManager_get_token(loc[s].browser_session) :
         /\ Inject(tok = None)
         /\ trace' = [trace EXCEPT ![s] =
                         Append(@, Event("get_token", IF tok = None THEN "None" ELSE "ok", 0, drv[s]))]
         /\ IF tok = None
            THEN RouteRaise(s, loc[s], "Failed to retrieve access token")
            ELSE /\ loc' = [loc EXCEPT ![s].access_token = tok,
                                       ![s].entry = StepCompleted(@, [token_created |-> TRUE])]
                 /\ pc' = [pc EXCEPT ![s] = IF loc[s].browser_session # None THEN "s_quit"
                                            ELSE "s_import_products"]
    /\ UNCHANGED <<db, dbValid, io, queue, running, drv, splits, limit, reply, svc>>

\* try: browser_session.quit(); browser_session = None  except Exception: print
route_quit_after_token(s) ==
    /\ pc[s] = "s_quit"
    /\ \E q \in WebDriver_quit :
         /\ Inject(q.raised)
         /\ trace' = [trace EXCEPT ![s] =
                         Append(@, Event("quit", IF q.raised THEN "raise" ELSE "ok", 0, drv[s]))]
         /\ drv' = [drv EXCEPT ![s] = q.after]
         /\ loc' = [loc EXCEPT ![s].browser_session = IF q.raised THEN @ ELSE None]
    /\ pc' = [pc EXCEPT ![s] = "s_import_products"]
    /\ UNCHANGED <<db, dbValid, io, queue, running, splits, limit, reply, svc>>

route_import_products(s) ==
    /\ pc[s] = "s_import_products"
    /\ LET started == [loc[s] EXCEPT !.entry = StepStarted(@, "import_products")]
       IN  \E r \in EbayShopifyImporter_import_products(loc[s].user_data["product_count"]) :
             /\ Inject(r.raised \/ ~r.success)
             /\ IF r.raised
                THEN /\ trace' = [trace EXCEPT ![s] = Append(@, Event("import_products", "raise", 0, drv[s]))]
                     /\ RouteRaise(s, started, "import_products failed")
                ELSE /\ trace' = [trace EXCEPT ![s] =
                                     Append(@, Event("import_products", IF r.success THEN "ok" ELSE "error",
                                                     r.products, drv[s]))]
                     /\ loc' = [loc EXCEPT ![s] = [started EXCEPT
                           !.imported = ProductImporter_import_products(r),
                           !.entry = StepCompleted(@,
                               [products_imported |-> ProductImporter_import_products(r),
                                category |-> "electronics",
                                requested_count |-> loc[s].user_data["product_count"]])]]
                     /\ pc' = [pc EXCEPT ![s] = "s_transfer"]
    /\ UNCHANGED <<db, dbValid, io, queue, running, drv, splits, limit, reply, svc>>

route_transfer_to_customer(s) ==
    /\ pc[s] = "s_transfer"
    /\ LET started == [loc[s] EXCEPT !.entry = StepStarted(@, "transfer_ownership")]
       IN  \E r \in OwnershipTransfer_transfer_to_customer :
             /\ Inject(r.raised \/ ~r.success)
             /\ IF r.raised
                THEN /\ trace' = [trace EXCEPT ![s] = Append(@, Event("transfer_to_customer", "raise", 0, drv[s]))]
                     /\ RouteRaise(s, started, "transfer_to_customer failed")
                ELSE /\ trace' = [trace EXCEPT ![s] =
                                     Append(@, Event("transfer_to_customer",
                                                     IF r.success THEN "ok" ELSE "fail", 0, drv[s]))]
                     /\ loc' = [loc EXCEPT ![s] = [started EXCEPT !.entry =
                           DictUpdate(StepCompleted(@, [data |-> [success |-> r.success]]),
                                      [status |-> "completed", completed_at |-> "ts"])]]
                     /\ pc' = [pc EXCEPT ![s] = "s_save"]
    /\ UNCHANGED <<db, dbValid, io, queue, running, drv, splits, limit, reply, svc>>

\* except Exception: if browser_session: try: browser_session.quit() except: pass
route_quit_on_error(s) ==
    /\ pc[s] = "s_quit_err"
    /\ \E q \in WebDriver_quit :
         /\ Inject(q.raised)
         /\ trace' = [trace EXCEPT ![s] =
                         Append(@, Event("quit", IF q.raised THEN "raise" ELSE "ok", 0, drv[s]))]
         /\ drv' = [drv EXCEPT ![s] = IF drv[s] = "closed" THEN "closed" ELSE q.after]
    /\ pc' = [pc EXCEPT ![s] = "s_save"]
    /\ UNCHANGED <<db, dbValid, loc, io, queue, running, splits, limit, reply, svc>>

\* run_automation_background / create_store return: the locals are gone, the
\* pool worker is free again.
handler_return(t) ==
    /\ pc[t] = "return"
    /\ pc' = [pc EXCEPT ![t] = "done"]
    /\ loc' = [loc EXCEPT ![t] = [NoLocals EXCEPT !.store_id = loc[t].store_id]]
    /\ trace' = [trace EXCEPT ![t] = <<>>]
    /\ drv' = [drv EXCEPT ![t] = "none"]
    /\ running' = running \ {t}
    /\ UNCHANGED <<db, dbValid, io, queue, splits, faults, limit, reply, svc>>

\* ------------------------------------------------------------ specification
\* What the thread of request t can do next.
Step(t) ==
    \/ api_create_store(t)
    \/ executor_submit(t)
    \/ executor_start(t)
    \/ stage_create_store(t)
    \/ stage_get_token(t)
    \/ quit_after_token(t)
    \/ stage_import_products(t)
    \/ stage_transfer_to_customer(t)
    \/ quit_on_error(t)
    \/ create_store(t)
    \/ route_create_store(t)
    \/ route_get_token(t)
    \/ route_quit_after_token(t)
    \/ route_import_products(t)
    \/ route_transfer_to_customer(t)
    \/ route_quit_on_error(t)
    \/ store_operation(t)
    \/ store_load(t)
    \/ store_open(t)
    \/ store_close(t)
    \/ handler_return(t)

Next == \E t \in Threads : Step(t)

\* Any two requests at a time, one failing call.
Spec == Init /\ [][Next]_vars

\* One request after the other, one more failing call.
InitSequential ==
    /\ InitSystem
    /\ limit = [requests |-> MaxRequests, inflight |-> 1, handlers |-> 1,
                route |-> Threads, solo |-> 1, rest |-> MaxRequests,
                catalog |-> MaxCatalog, splits |-> MaxSplit, faults |-> MaxFaults + 1,
                reuse |-> 0]

SpecSequential == InitSequential /\ [][Next]_vars

\* Any two requests at a time, every thread scheduled again and again: no
\* handler and no pool worker stops before its function returns.
SpecFair == Init /\ [][Next]_vars /\ \A t \in Threads : WF_vars(Step(t))

\* More requests than the pool has workers, submitted one after the other.
\* Only the last request may be a form post; a request is malformed, a call
\* fails and a store operation is preempted only for the last request, once
\* it runs alone.
InitPool ==
    /\ InitSystem
    /\ limit = [requests |-> MaxPool, inflight |-> MaxPool, handlers |-> 1,
                route |-> {MaxPool}, solo |-> 1, rest |-> 0,
                catalog |-> 0, splits |-> MaxSplit, faults |-> MaxFaults, reuse |-> 0]

SpecPool == InitPool /\ [][Next]_vars

\* Any two requests at a time, the second of which may draw the store_id the
\* first drew; a request is malformed, a call fails and a store operation is
\* preempted only while a single request is in flight.
InitIds ==
    /\ InitSystem
    /\ limit = [requests |-> MaxRequests, inflight |-> MaxInFlight, handlers |-> MaxInFlight,
                route |-> Threads, solo |-> 1, rest |-> MaxRequests,
                catalog |-> 0, splits |-> MaxSplit, faults |-> MaxFaults, reuse |-> MaxReuse]

SpecIds == InitIds /\ [][Next]_vars

\* One request after the other, with a catalog that delivers one item more, so
\* that an import can deliver more than the smallest count a form may ask for.
InitImport ==
    /\ InitSystem
    /\ limit = [requests |-> MaxRequests, inflight |-> 1, handlers |-> 1,
                route |-> Threads, solo |-> 1, rest |-> MaxRequests,
                catalog |-> MaxCatalog + 1, splits |-> MaxSplit, faults |-> MaxFaults,
                reuse |-> 0]

SpecImport == InitImport /\ [][Next]_vars

\* ------------------------------------------------------------------ queries
\* The handlers of the GET routes: each reads the file once with load_history
\* and builds its response.

\* get_status(store_id): the first entry whose 'id' is the number, else 404.
get_status(store_id) ==
    LET history == load_history
        found == {i \in 1..Len(history) : Get(history[i], "id", None) = store_id}
    IN  IF found = {}
        THEN [code |-> 404, error |-> "Store not found"]
        ELSE [code |-> 200, entry |-> history[CHOOSE i \in found : \A k \in found : i <= k]]

\* get_all_history()
get_all_history == [code |-> 200, total |-> Len(load_history), stores |-> load_history]

\* sum(1 for entry in history if entry.get('status') == status)
CountStatus(history, status) ==
    Cardinality({i \in 1..Len(history) : Get(history[i], "status", None) = status})

\* sum(step.get('products_imported', 0) for step in steps
\*     if step.get('step') == 'import_products')
RECURSIVE StepProducts(_)
StepProducts(steps) ==
    IF steps = <<>> THEN 0
    ELSE (IF Get(Head(steps), "step", None) = "import_products"
          THEN Get(Head(steps), "products_imported", 0) ELSE 0) + StepProducts(Tail(steps))

RECURSIVE TotalProducts(_)
TotalProducts(history) ==
    IF history = <<>> THEN 0
    ELSE StepProducts(Get(Head(history), "steps", <<>>)) + TotalProducts(Tail(history))

\* f"{(completed/total_stores*100):.1f}%" if total_stores > 0 else "0%": the
\* digits before and after the point, the tenth rounded to nearest (half to
\* even); <<0>> for "0%".
SuccessRate(completed, total_stores) ==
    IF total_stores > 0
    THEN LET q == (completed * 1000) \div total_stores
             r == (completed * 1000) % total_stores
             tenths == IF 2 * r > total_stores \/ (2 * r = total_stores /\ q % 2 = 1)
                       THEN q + 1 ELSE q
         IN  <<tenths \div 10, tenths % 10>>
    ELSE <<0>>

\* get_stats()
get_stats ==
    LET history == load_history
    IN  [code |-> 200,
         total_stores |-> Len(history),
         completed |-> CountStatus(history, "completed"),
         failed |-> CountStatus(history, "failed"),
         in_progress |-> CountStatus(history, "in_progress"),
         total_products_imported |-> TotalProducts(history),
         success_rate |-> SuccessRate(CountStatus(history, "completed"), Len(history))]

\* A query is answered: the response goes to the client, nothing else changes.
Answer(response) ==
    /\ reply.n < limit.queries
    /\ reply' = [n |-> reply.n + 1, last |-> response]
    /\ UNCHANGED <<db, dbValid, pc, loc, io, queue, running, drv, trace, splits, faults, limit, svc>>

\* GET /api/stores/<store_id>/status
GET_store_status ==
    \E k \in 1..limit.requests : Answer(api_get_store_status(ToString(k)))

\* GET /api/status/<int:store_id>
GET_status ==
    \E store_id \in 1..limit.requests : Answer(get_status(store_id))

\* GET /api/history
GET_history == Answer(get_all_history)

\* A statistics handler that writes back the history it has read.
GET_stats_rewriting ==
    /\ reply.n < limit.queries
    /\ reply' = [n |-> reply.n + 1, last |-> get_stats]
    /\ db' = load_history
    /\ dbValid' = TRUE
    /\ UNCHANGED <<pc, loc, io, queue, running, drv, trace, splits, faults, limit, svc>>

\* GET /api/stats
GET_stats == Answer(get_stats)

NextQueries ==
    \/ Next
    \/ GET_store_status
    \/ GET_status
    \/ GET_history
    \/ GET_stats

\* One request after the other, and queries at any moment of their runs.
InitQueries ==
    /\ InitSystem
    /\ limit = [requests |-> MaxRequests, inflight |-> 1, handlers |-> 1,
                route |-> Threads, solo |-> 1, rest |-> MaxRequests,
                catalog |-> MaxCatalog, splits |-> MaxSplit, faults |-> MaxFaults,
                reuse |-> 0, queries |-> MaxQueries]

SpecQueries == InitQueries /\ [][NextQueries]_vars

\* A job of the API and, beside it, a second request that may be a form post,
\* with two failing calls for each of them.
InitRoutes ==
    /\ InitSystem
    /\ limit = [requests |-> MaxRequests, inflight |-> MaxInFlight, handlers |-> 1,
                route |-> Threads \ {1}, solo |-> MaxInFlight, rest |-> MaxRequests,
                catalog |-> 0, splits |-> MaxSplit, faults |-> 2 * (MaxFaults + 1),
                reuse |-> 0]

SpecRoutes == InitRoutes /\ [][Next]_vars

\* ------------------------------------------- services followed from inside
\* No request is served while a service method is followed from inside.
NoRequests ==
    [requests |-> 0, inflight |-> 0, handlers |-> 0, route |-> {}, solo |-> 0, rest |-> 0,
     catalog |-> 0, splits |-> 0, faults |-> 0, reuse |-> 0]

\* A dict that has key k with one of the values of S, or does not have it.
Opt(k, S) == {<<>>} \cup {k :> v : v \in S}

\* str.lower() on the letters the texts are made of.
LowerChar(c) == IF c = "A" THEN "a" ELSE c

Lower(s) == [i \in 1..Len(s) |-> LowerChar(s[i])]

\* word in text, of two Python strings
In(word, text) ==
    \E i \in 0..(Len(text) - Len(word)) : SubSeq(text, i + 1, i + Len(word)) = word

\* ------------------------------------ EbayShopifyImporter._filter_by_keywords
\* Products as the catalogue returns them: each key may be missing.
FilterProducts ==
    {a @@ b @@ c @@ d :
        a \in Opt("title", {<<>>, <<"A">>, <<"b">>}),
        b \in Opt("name", {<<"a">>}),
        c \in Opt("description", {<<"b">>}),
        d \in Opt("product_type", {<<"A">>, <<"b">>})}

\* Keyword dicts as _get_search_keywords and the endpoint mapping build them:
\* the expected type, when there is one, is in lower case.
FilterKeywords ==
    {a @@ b @@ c @@ d :
        a \in Opt("positive", {<<>>, << <<"b">> >>}),
        b \in Opt("required", {<< <<"c">>, <<"A">> >>}),
        c \in Opt("negative", {<< <<"b">> >>}),
        d \in Opt("expected_product_type", {<<"a">>})}

FilterLists == UNION {[1..n -> FilterProducts] : n \in 0..MaxListed}

\* The part of the loop body that decides on one product: the reason for
\* which it is rejected, "none" when it is appended.
RejectedNegativeInText(product, keywords_dict, strict_mode) ==
    LET positive == Get(keywords_dict, "positive", <<>>)
        required == Get(keywords_dict, "required", <<>>)
        negative == Get(keywords_dict, "negative", <<>>)
        expected_type == Get(keywords_dict, "expected_product_type", <<>>)
        title == Lower(Get(product, "title", Get(product, "name", <<>>)))
        description == Lower(Get(product, "description", <<>>))
        product_type == Lower(Get(product, "product_type", <<>>))
        check_text == IF strict_mode THEN title ELSE title \o <<" ">> \o description
    IN  IF expected_type # <<>> /\ product_type # <<>> /\ product_type # expected_type
        THEN "type"
        ELSE IF \E n \in 1..Len(negative) : In(Lower(negative[n]), check_text)
        THEN "negative"
        ELSE IF required # <<>> /\ ~\E n \in 1..Len(required) : In(Lower(required[n]), title)
        THEN "required"
        ELSE IF positive # <<>> /\ ~\E n \in 1..Len(positive) : In(Lower(positive[n]), check_text)
        THEN "positive"
        ELSE "none"

Rejected(product, keywords_dict, strict_mode) ==
    LET positive == Get(keywords_dict, "positive", <<>>)
        required == Get(keywords_dict, "required", <<>>)
        negative == Get(keywords_dict, "negative", <<>>)
        expected_type == Get(keywords_dict, "expected_product_type", <<>>)
        title == Lower(Get(product, "title", Get(product, "name", <<>>)))
        description == Lower(Get(product, "description", <<>>))
        product_type == Lower(Get(product, "product_type", <<>>))
        check_text == IF strict_mode THEN title ELSE title \o <<" ">> \o description
    IN  IF expected_type # <<>> /\ product_type # <<>> /\ product_type # expected_type
        THEN "type"
        ELSE IF \E n \in 1..Len(negative) : In(Lower(negative[n]), title)
        THEN "negative"
        ELSE IF required # <<>> /\ ~\E n \in 1..Len(required) : In(Lower(required[n]), title)
        THEN "required"
        ELSE IF positive # <<>> /\ ~\E n \in 1..Len(positive) : In(Lower(positive[n]), check_text)
        THEN "positive"
        ELSE "none"

\* The keyword lists are read; with no keyword and no expected type the
\* products are returned as they came.
filter_enter ==
    /\ svc.fn = "_filter_by_keywords"
    /\ svc.at = "enter"
    /\ LET keywords_dict == svc.keywords_dict
       IN  IF /\ Get(keywords_dict, "positive", <<>>) = <<>>
              /\ Get(keywords_dict, "required", <<>>) = <<>>
              /\ Get(keywords_dict, "negative", <<>>) = <<>>
              /\ Get(keywords_dict, "expected_product_type", <<>>) = <<>>
           THEN svc' = [svc EXCEPT !.at = "returned", !.result = svc.products]
           ELSE svc' = [svc EXCEPT !.at = "loop"]
    /\ UNCHANGED <<db, dbValid, pc, loc, io, queue, running, drv, trace, splits, faults, limit, reply>>

\* for product in products: one turn of the loop
filter_product ==
    /\ svc.fn = "_filter_by_keywords"
    /\ svc.at = "loop"
    /\ svc.i < Len(svc.products)
    /\ LET product == svc.products[svc.i + 1]
           reason == Rejected(product, svc.keywords_dict, svc.strict_mode)
       IN  svc' = [svc EXCEPT !.i = svc.i + 1,
                              !.filtered = IF reason = "none" THEN Append(svc.filtered, product)
                                           ELSE svc.filtered,
                              !.rejected = svc.rejected \o <<reason>>]
    /\ UNCHANGED <<db, dbValid, pc, loc, io, queue, running, drv, trace, splits, faults, limit, reply>>

\* return filtered
filter_return ==
    /\ svc.fn = "_filter_by_keywords"
    /\ svc.at = "loop"
    /\ svc.i = Len(svc.products)
    /\ svc' = [svc EXCEPT !.at = "returned", !.result = svc.filtered]
    /\ UNCHANGED <<db, dbValid, pc, loc, io, queue, running, drv, trace, splits, faults, limit, reply>>

NextFilter == filter_enter \/ filter_product \/ filter_return

\* One call of the filter on any list of products with any keyword dict.
InitFilter ==
    /\ InitProgram
    /\ limit = NoRequests
    /\ svc \in {[fn |-> "_filter_by_keywords", at |-> "enter", products |-> products,
                  keywords_dict |-> keywords_dict, strict_mode |-> strict_mode,
                  i |-> 0, filtered |-> <<>>, rejected |-> <<>>, result |-> <<>>] :
                    products \in FilterLists, keywords_dict \in FilterKeywords,
                    strict_mode \in BOOLEAN}

SpecFilter == InitFilter /\ [][NextFilter]_vars

\* ------------------------------------------- AccessTokenManager.get_token
\* The eight steps of get_token, in the order of the code.
TokenSteps ==
    <<"navigate_to_dev_dashboard", "create_app", "configure_scopes", "release_app",
      "navigate_to_settings", "extract_credentials", "install_app_to_store",
      "get_access_token_from_api">>

\* What step k hands back to get_token. Every step catches its own
\* exceptions and reports them as False (None for the token request); without
\* a driver the first step already fails.
TokenStep(k, driver) ==
    IF driver = None THEN {[ok |-> FALSE, token |-> None]}
    ELSE IF k < Len(TokenSteps)
    THEN {[ok |-> TRUE, token |-> None], [ok |-> FALSE, token |-> None]}
    ELSE {[ok |-> TRUE, token |-> "shpat_token"], [ok |-> FALSE, token |-> None]}

\* self.driver = driver ... self.store_name = ...: store_url.replace raises
\* when no URL was given, and the except clause takes over.
token_enter ==
    /\ svc.fn = "get_token"
    /\ svc.at = "enter"
    /\ svc' = [svc EXCEPT !.at = IF svc.store_url = None THEN "except" ELSE "steps"]
    /\ UNCHANGED <<db, dbValid, pc, loc, io, queue, running, drv, trace, splits, faults, limit, reply>>

\* A get_token that goes on to the next step after a step has failed.
token_step_carrying_on ==
    /\ svc.fn = "get_token"
    /\ svc.at = "steps"
    /\ \E r \in TokenStep(svc.step, svc.driver) :
         LET called == Append(svc.called, [name |-> TokenSteps[svc.step], ok |-> r.ok])
         IN  IF svc.step = Len(TokenSteps)
             THEN svc' = [svc EXCEPT !.called = called, !.at = IF r.ok THEN "returned" ELSE "except",
                                     !.outcome = IF r.ok THEN "returned" ELSE @,
                                     !.result = [token |-> r.token]]
             ELSE svc' = [svc EXCEPT !.called = called, !.step = svc.step + 1]
    /\ UNCHANGED <<db, dbValid, pc, loc, io, queue, running, drv, trace, splits, faults, limit, reply>>

\* if not self.<step>(): raise Exception(...), for steps 1..7, and
\* access_token = self.get_access_token_from_api(); if not access_token: raise;
\* return access_token
token_step ==
    /\ svc.fn = "get_token"
    /\ svc.at = "steps"
    /\ \E r \in TokenStep(svc.step, svc.driver) :
         LET called == Append(svc.called, [name |-> TokenSteps[svc.step], ok |-> r.ok])
         IN  IF ~r.ok
             THEN svc' = [svc EXCEPT !.called = called, !.at = "except"]
             ELSE IF svc.step = Len(TokenSteps)
             THEN svc' = [svc EXCEPT !.called = called, !.at = "returned", !.outcome = "returned",
                                     !.result = [token |-> r.token]]
             ELSE svc' = [svc EXCEPT !.called = called, !.step = svc.step + 1]
    /\ UNCHANGED <<db, dbValid, pc, loc, io, queue, running, drv, trace, splits, faults, limit, reply>>

\* except Exception: the screenshot is tried, its failure is swallowed, and
\* None is returned.
token_except ==
    /\ svc.fn = "get_token"
    /\ svc.at = "except"
    /\ \E screenshot \in {"saved", "raised"} :
         svc' = [svc EXCEPT !.at = "returned", !.outcome = "returned", !.result = [token |-> None],
                            !.screenshot = screenshot]
    /\ UNCHANGED <<db, dbValid, pc, loc, io, queue, running, drv, trace, splits, faults, limit, reply>>

\* The calls of get_token: with or without a store URL, with or without a
\* session handle.
TokenCalls ==
    {[fn |-> "get_token", at |-> "enter", store_url |-> store_url, driver |-> driver,
      browser |-> IF driver = None THEN "none" ELSE "open", step |-> 1, called |-> <<>>,
      outcome |-> "running", result |-> [token |-> None], screenshot |-> "none"] :
        store_url \in {"https://shop.myshopify.com/", None}, driver \in {"driver", None}}

\* --------------------------------------- ShopifyAccountCreator.create_store
\* The steps of create_store, in the order of the code.
CreateSteps ==
    <<"setup_driver", "navigate_to_partners_and_login", "enter_email",
      "click_continue_with_email", "enter_password", "click_login_button",
      "handle_organization_selection", "verify_login_success", "click_stores_button",
      "click_add_store_button", "click_create_development_store", "fill_store_name_field",
      "select_country", "click_create_development_store_button",
      "select_account_after_creation", "extract_store_info", "driver.get",
      "change_store_password">>

\* The steps whose false result create_store only warns about.
CreateTolerated == {"select_country", "change_store_password"}

\* The steps that catch every exception of their own and report it as a
\* false value.
CreateGuarded == {"setup_driver", "select_country", "extract_store_info", "change_store_password"}

\* What a step does: it succeeds, hands back a false value, or raises.
\* setup_driver may fail before or after Chrome was started.
CreateStep(name) ==
    IF name = "setup_driver"
    THEN {[res |-> "ok", driver |-> "driver", browser |-> "open"],
          [res |-> "false", driver |-> None, browser |-> "none"],
          [res |-> "false", driver |-> "driver", browser |-> "open"]}
    ELSE IF name \in CreateGuarded THEN {[res |-> "ok"], [res |-> "false"]}
    ELSE IF name = "driver.get" THEN {[res |-> "ok"], [res |-> "raise"]}
    ELSE {[res |-> "ok"], [res |-> "false"], [res |-> "raise"]}

\* One step of the try block: if not self.<step>(): raise Exception(...);
\* for select_country and change_store_password only a warning is printed.
create_step ==
    /\ svc.fn = "create_store"
    /\ svc.at = "steps"
    /\ LET name == CreateSteps[svc.step]
       IN  \E r \in CreateStep(name) :
             LET now == [svc EXCEPT !.called = Append(@, [name |-> name, res |-> r.res]),
                                    !.driver = IF name = "setup_driver" THEN r.driver ELSE @,
                                    !.browser = IF name = "setup_driver" THEN r.browser ELSE @]
             IN  IF r.res = "ok" \/ (r.res = "false" /\ name \in CreateTolerated)
                 THEN svc' = [now EXCEPT !.step = svc.step + 1,
                                         !.at = IF svc.step = Len(CreateSteps) THEN "return" ELSE "steps"]
                 ELSE svc' = [now EXCEPT !.at = "except"]
    /\ UNCHANGED <<db, dbValid, pc, loc, io, queue, running, drv, trace, splits, faults, limit, reply>>

\* return store_data, self.driver: extract_store_info has given a store URL
\* (its own or a placeholder), or the except clause would have been taken.
create_return ==
    /\ svc.fn = "create_store"
    /\ svc.at = "return"
    /\ svc' = [svc EXCEPT !.at = "returned", !.outcome = "returned",
                          !.result = [store_url |-> "https://shop.myshopify.com/",
                                      driver |-> svc.driver]]
    /\ UNCHANGED <<db, dbValid, pc, loc, io, queue, running, drv, trace, splits, faults, limit, reply>>

\* except Exception: the screenshot (failure swallowed), then
\* if self.driver: self.driver.quit(), then raise. An exception of quit()
\* leaves the handler in place of the original one.
create_except ==
    /\ svc.fn = "create_store"
    /\ svc.at = "except"
    /\IF svc.driver # None
       THEN \E q \in WebDriver_quit :
              svc' = [svc EXCEPT !.at = "raised", !.outcome = "raised", !.browser = q.after,
                                 !.quit = IF q.raised THEN "raised" ELSE "ok"]
       ELSE svc' = [svc EXCEPT !.at = "raised", !.outcome = "raised"]
    /\ UNCHANGED <<db, dbValid, pc, loc, io, queue, running, drv, trace, splits, faults, limit, reply>>

\* The calls of create_store: the creator has no browser yet.
CreateCalls ==
    {[fn |-> "create_store", at |-> "steps", driver |-> None, browser |-> "none", step |-> 1,
      called |-> <<>>, outcome |-> "running", quit |-> "none",
      result |-> [store_url |-> "", driver |-> None]]}

\* ---------------------------------- OwnershipTransfer.transfer_to_customer
\* The eight steps of transfer_to_customer, in the order of the list `steps`.
TransferSteps ==
    <<"setup_driver", "login_to_partners", "search_for_store", "open_actions_menu",
      "select_transfer_ownership", "open_transfer_form", "fill_transfer_form",
      "submit_transfer">>

\* Every step catches its own exceptions and returns True or False;
\* setup_driver may fail before or after Chrome was started.
TransferStep(name) ==
    IF name = "setup_driver"
    THEN {[ok |-> TRUE, driver |-> "driver", browser |-> "open"],
          [ok |-> FALSE, driver |-> None, browser |-> "none"],
          [ok |-> FALSE, driver |-> "driver", browser |-> "open"]}
    ELSE {[ok |-> TRUE], [ok |-> FALSE]}

\* The names are made up from the e-mail address: customer_email.split
\* raises when there is none, and the except clause takes over.
transfer_enter ==
    /\ svc.fn = "transfer_to_customer"
    /\ svc.at = "enter"
    /\ svc' = [svc EXCEPT !.at = IF svc.customer_email = None THEN "except" ELSE "steps"]
    /\ UNCHANGED <<db, dbValid, pc, loc, io, queue, running, drv, trace, splits, faults, limit, reply>>

\* for idx, (step_name, step_func) in enumerate(steps, 1):
\*     if not step_func(): raise Exception(...)
\* and, after the last step, result = {'success': True, ...}; return result
transfer_step ==
    /\ svc.fn = "transfer_to_customer"
    /\ svc.at = "steps"
    /\ LET name == TransferSteps[svc.step]
       IN  \E r \in TransferStep(name) :
             LET now == [svc EXCEPT !.called = Append(@, [name |-> name, ok |-> r.ok]),
                                    !.driver = IF name = "setup_driver" THEN r.driver ELSE @,
                                    !.browser = IF name = "setup_driver" THEN r.browser ELSE @]
             IN  IF ~r.ok
                 THEN svc' = [now EXCEPT !.at = "except"]
                 ELSE IF svc.step = Len(TransferSteps)
                 THEN svc' = [now EXCEPT !.at = "finally", !.result = [success |-> TRUE, error |-> ""]]
                 ELSE svc' = [now EXCEPT !.step = svc.step + 1]
    /\ UNCHANGED <<db, dbValid, pc, loc, io, queue, running, drv, trace, splits, faults, limit, reply>>

\* except Exception as e: return {'success': False, 'error': str(e), ...}
transfer_except ==
    /\ svc.fn = "transfer_to_customer"
    /\ svc.at = "except"
    /\ svc' = [svc EXCEPT !.at = "finally", !.result = [success |-> FALSE, error |-> "Failed"]]
    /\ UNCHANGED <<db, dbValid, pc, loc, io, queue, running, drv, trace, splits, faults, limit, reply>>

\* finally: if self.driver: self.driver.quit(). An exception of quit() leaves
\* the method in place of the value about to be returned.
transfer_finally ==
    /\ svc.fn = "transfer_to_customer"
    /\ svc.at = "finally"
    /\ IF svc.driver # None
       THEN \E q \in WebDriver_quit :
              svc' = [svc EXCEPT !.at = IF q.raised THEN "raised" ELSE "returned",
                                 !.browser = q.after,
                                 !.quit = IF q.raised THEN "raised" ELSE "ok",
                                 !.outcome = IF q.raised THEN "raised" ELSE "returned"]
       ELSE svc' = [svc EXCEPT !.at = "returned", !.outcome = "returned"]
    /\ UNCHANGED <<db, dbValid, pc, loc, io, queue, running, drv, trace, splits, faults, limit, reply>>

\* The calls of transfer_to_customer: with or without an e-mail address.
TransferCalls ==
    {[fn |-> "transfer_to_customer", at |-> "enter", customer_email |-> customer_email,
      driver |-> None, browser |-> "none", step |-> 1, called |-> <<>>, outcome |-> "running",
      quit |-> "none", result |-> [success |-> FALSE, error |-> ""]] :
        customer_email \in {"a@b.c", None}}

\* ------------------------------------------------- one call of a service
NextServices ==
    \/ token_enter \/ token_step \/ token_except
    \/ create_step \/ create_return \/ create_except
    \/ transfer_enter \/ transfer_step \/ transfer_except \/ transfer_finally

\* One call of get_token, of create_store or of transfer_to_customer.
InitServices ==
    /\ InitProgram
    /\ limit = NoRequests
    /\ svc \in TokenCalls \cup CreateCalls \cup TransferCalls

SpecServices == InitServices /\ [][NextServices]_vars

\* ------------------------------------------------ what the claims speak of
\* Positions of the events of request t that satisfy P.
Calls(t, op) == {i \in 1..Len(trace[t]) : trace[t][i].op = op}

Called(t, op, results) == \E i \in Calls(t, op) : trace[t][i].res \in results

Quits(t) == Cardinality(Calls(t, "quit"))

\* Stage 1 handed a session handle to the pipeline of request t.
HandleReturned(t) == Called(t, "create_store", {"ok"}) /\ drv[t] # "none"

\* The pipeline of request t has written its last status and not yet returned.
Ended(t) == pc[t] = "return"

\* The stored entry of the job of API request j, when the file holds one.
Idx(j) == IF loc[j].store_id = None THEN 0 ELSE FirstIndex(db, loc[j].store_id)
Has(j) == Idx(j) # 0
Entry(j) == db[Idx(j)]

\* C1: in every run in which stage 1 returned a session handle, quit() is
\* invoked exactly once (never twice, and once by the time the run has ended),
\* and import_products never begins before quit() has been invoked.
C1_HandleClosedExactlyOnce ==
    \A t \in Threads :
        HandleReturned(t) =>
            /\ Quits(t) <= 1
            /\ Ended(t) => Quits(t) = 1
            /\ \A i \in Calls(t, "import_products") :
                  \E k \in Calls(t, "quit") : k < i

\* C2: when stage 1 returned a session handle and get_token returned no token,
\* quit() is invoked exactly once, and before the 'failed' status of the job is
\* written: the handle is released when the write begins, at every write of
\* the failure in the trace a quit precedes it, and a stored 'failed' status of
\* the running job implies the quit.
C2_QuitOnceBeforeFailed ==
    \A t \in Threads :
        (HandleReturned(t) /\ Called(t, "get_token", {"None", "raise"})) =>
            /\ Quits(t) <= 1
            /\ Called(t, "import_products", {"ok", "error", "raise"}) = FALSE
            /\ pc[t] \in {"u_failed", "s_save", "return"} => Quits(t) = 1
            /\ \A i \in 1..Len(trace[t]) :
                  trace[t][i].res \in {"u_failed", "s_save"} =>
                      \E k \in 1..(i - 1) : trace[t][k].op = "quit"
            /\ (Has(t) /\ Get(Entry(t), "status", None) = "failed") => Quits(t) = 1

\* C2 witness: stage 2 failed on a live handle, and the failure is written.
C2_Witness ==
    \E t \in Threads :
        /\ HandleReturned(t)
        /\ Called(t, "get_token", {"None"})
        /\ Ended(t)
        /\ Quits(t) = 1
        /\ trace[t][Len(trace[t])].res \in {"u_failed", "s_save"}

\* ------------------------------------------------------------ stored records
\* The last update_entry_status call of job j that has returned: its position
\* in the trace (0 when none has).
LastUpdate(j) ==
    LET U == Calls(j, "update_entry_status")
    IN  IF U = {} THEN 0 ELSE CHOOSE i \in U : \A k \in U : k <= i

\* The stored record e carries every field value of the dict u.
Carries(e, u) == \A k \in DOMAIN u : k \in DOMAIN e /\ e[k] = u[k]

\* C3: after update_entry_status(job, fields) has returned, and until the same
\* job's orchestrator writes again, the stored record of the job carries those
\* field values, whatever save_history and update_entry_status calls other
\* requests make meanwhile.
C3_NoUpdateLost ==
    \A j \in Threads :
        (LastUpdate(j) # 0 /\ io[j].phase = "none") =>
            /\ Has(j)
            /\ Carries(Entry(j), Updates(trace[j][LastUpdate(j)].res, loc[j]))

\* C4: the progress_percent a reader finds in the record of a job never
\* decreases from one content of the file to the next.
C4_PercentNeverDecreases ==
    [][\A j \in Threads :
          (Has(j) /\ Has(j)') =>
              Get(Entry(j), "progress_percent", 0) <= Get(Entry(j), "progress_percent", 0)']_vars

\* A record whose status is terminal.
Terminal(e) == Get(e, "status", None) \in {"completed", "failed"}

\* C5: once the stored status of a record is 'completed' or 'failed', the
\* record stays in the file and no field of it changes again.
C5_TerminalRecordFrozen ==
    [][\A i \in 1..Len(db) :
          Terminal(db[i]) => (i <= Len(db') /\ db'[i] = db[i])]_vars

\* The names of the steps list of a record.
StepNames(e) == [i \in 1..Len(Get(e, "steps", <<>>)) |-> e.steps[i].step]

IsPrefix(s, t) == Len(s) <= Len(t) /\ \A i \in 1..Len(s) : s[i] = t[i]

\* C6: in every stored record the names of 'steps' are a prefix of the four
\* stage names, and they are all four exactly when the status is 'completed'.
C6_StepsPrefixFullIffCompleted ==
    \A i \in 1..Len(db) :
        /\ IsPrefix(StepNames(db[i]), StageNames)
        /\ (StepNames(db[i]) = StageNames) <=> (Get(db[i], "status", None) = "completed")

\* ------------------------------------------------------- how a request ends
\* The request went through POST /api/stores (its record has its store_id).
IsJob(t) == Called(t, "save_history", {"api_save"})

\* The pipeline of request t wrote 'failed' / 'completed' as its last status.
EndedFailed(t) ==
    /\ Ended(t)
    /\ \/ trace[t][Len(trace[t])].res = "u_failed"
       \/ trace[t][Len(trace[t])].res = "s_save" /\ loc[t].entry.status = "failed"

EndedCompleted(t) ==
    /\ Ended(t)
    /\ \/ trace[t][Len(trace[t])].res = "u100"
       \/ trace[t][Len(trace[t])].res = "s_save" /\ loc[t].entry.status = "completed"

\* The stage each service call belongs to.
StageOf(op) ==
    CASE op = "create_store" -> "create_account"
      [] op = "get_token" -> "access_token"
      [] op = "import_products" -> "import_products"
      [] op = "transfer_to_customer" -> "transfer_ownership"

StageCalls(t) == {i \in 1..Len(trace[t]) : trace[t][i].op \in
                     {"create_store", "get_token", "import_products", "transfer_to_customer"}}

\* The stage calls of request t that did not do their work.
FailedCalls(t) == {i \in StageCalls(t) : trace[t][i].res # "ok"}

\* The records of request t in the file: by store_id for a job, the saved
\* automation_log for the synchronous route.
RecordsOf(t) ==
    {i \in 1..Len(db) : IF IsJob(t) THEN Get(db[i], "store_id", None) = loc[t].store_id
                                    ELSE db[i] = loc[t].entry}

\* The stage a record names as the one reached: current_step, or for a record
\* without one the step it recorded last.
StageNamed(e) ==
    IF "current_step" \in DOMAIN e THEN e.current_step
    ELSE IF Get(e, "steps", <<>>) = <<>> THEN None
    ELSE e.steps[Len(e.steps)].step

\* Request t ended with a stored record that is failed at the given stage.
StoredFailedAt(t, stage) ==
    /\ EndedFailed(t)
    /\ RecordsOf(t) # {}
    /\ \A i \in RecordsOf(t) : /\ Get(db[i], "status", None) = "failed"
                               /\ StageNamed(db[i]) = stage

\* C7: when transfer_to_customer did not transfer (a step of it failed or it
\* raised), the request does not end 'completed'; it ends 'failed' with the
\* stage transfer_ownership.
C7_TransferFailureFailsJob ==
    \A t \in Threads :
        (Ended(t) /\ Called(t, "transfer_to_customer", {"fail", "raise"})) =>
            /\ ~EndedCompleted(t)
            /\ \A i \in RecordsOf(t) : Get(db[i], "status", None) # "completed"
            /\ StoredFailedAt(t, "transfer_ownership")

\* C8: when the import reported an error (or raised), the request ends 'failed'
\* at import_products; a request that ends 'completed' had an import that
\* reported no error.
C8_ImportErrorFailsJob ==
    \A t \in Threads :
        /\ (Ended(t) /\ Called(t, "import_products", {"error", "raise"})) =>
              StoredFailedAt(t, "import_products")
        /\ EndedCompleted(t) => Called(t, "import_products", {"ok"})

\* C9: when stage 1 gave no store (it raised, or returned an empty URL or no
\* handle), no later stage is invoked for the request and it ends with a
\* stored record that is failed at create_account.
C9_Stage1FailureFailsJob ==
    \A t \in Threads :
        (\/ Called(t, "create_store", {"raise"})
         \/ /\ Called(t, "create_store", {"ok"})
            /\ \/ Get(loc[t].store_data, "store_url", None) \in {None, ""}
               \/ drv[t] = "none") =>
            /\ StageCalls(t) = Calls(t, "create_store")
            /\ Ended(t) => StoredFailedAt(t, "create_account")

\* C10: when a request ends 'failed', its stored record has an error message,
\* a failed_at timestamp and current_step naming the stage whose call failed,
\* and that call was the last stage call of the request.
C10_FailedRecordComplete ==
    \A t \in Threads :
        EndedFailed(t) =>
            /\ RecordsOf(t) # {}
            /\ StageCalls(t) # {}
            /\ LET last == CHOOSE i \in StageCalls(t) : \A k \in StageCalls(t) : k <= i
               IN  /\ last \in FailedCalls(t)
                   /\ \A i \in RecordsOf(t) :
                         /\ Get(db[i], "status", None) = "failed"
                         /\ Get(db[i], "error", None) # None
                         /\ "failed_at" \in DOMAIN db[i]
                         /\ Get(db[i], "current_step", None) = StageOf(trace[t][last].op)

\* ------------------------------------------------------------ stage order
\* The service calls of request t, in the order in which they were made.
StageSeq(t) ==
    LET F[i \in 0..Len(trace[t])] ==
            IF i = 0 THEN <<>>
            ELSE IF i \in StageCalls(t) THEN Append(F[i - 1], trace[t][i]) ELSE F[i - 1]
    IN  F[Len(trace[t])]

StageOps == <<"create_store", "get_token", "import_products", "transfer_to_customer">>

\* C11: within one request the k-th service call is the k-th stage operation
\* (each at most once, in the fixed order, none re-entered), and a stage is
\* invoked only after the stage before it has returned successfully.
C11_StagesOnceInOrderAfterSuccess ==
    \A t \in Threads :
        /\ Len(StageSeq(t)) <= Len(StageOps)
        /\ \A k \in 1..Len(StageSeq(t)) :
              /\ StageSeq(t)[k].op = StageOps[k]
              /\ k > 1 => StageSeq(t)[k - 1].res = "ok"

\* ------------------------------------------------------------------- pool
\* The pipeline runs in progress: the jobs on pool workers and the requests of
\* the synchronous route between their first stage and their last save.
RoutePcs == {"s_create_store", "s_get_token", "s_quit", "s_import_products",
             "s_transfer", "s_quit_err", "s_save"}

Orchestrations == running \cup {t \in Threads : pc[t] \in RoutePcs}

\* C12: at most max_workers (3) pipeline runs are in progress at any time,
\* counting the jobs of the pool and the runs of the synchronous route.
C12_AtMostThreeOrchestrations == Cardinality(Orchestrations) <= max_workers

\* Job j was submitted while every worker of the pool was busy.
HadToWait(j) == Called(j, "submit", {"busy"})

\* The last thing request t did was to write a terminal status.
WroteTerminal(t) ==
    /\ trace[t] # <<>>
    /\ trace[t][Len(trace[t])].op = "update_entry_status"
    /\ trace[t][Len(trace[t])].res \in {"u100", "u_failed"}

Waiting == {queue[i] : i \in 1..Len(queue)}

\* Job t has started on the pool.
Started(t) == t \in running \/ (pc[t] = "done" /\ Has(t))

\* C14: a submission is taken whatever the state of the pool (executor.submit
\* is always possible, and the job then waits in the queue until it starts),
\* and waiting jobs start in the order of their submission: when submissions
\* are made one after the other, so that request numbers are the order of
\* submission, no job has started while a job submitted before it waits.
C14_QueuedInOrderNeverRejected ==
    /\ \A j \in Threads : pc[j] = "api_submit" => ENABLED executor_submit(j)
    /\ \A j \in Threads : pc[j] = "queued" <=> j \in Waiting
    /\ \A i, k \in 1..Len(queue) : i < k => queue[i] # queue[k]
    /\ \A a, b \in Threads :
          (limit.handlers = 1 /\ a < b /\ pc[a] = "queued") => ~Started(b)

\* C14 witness: of two jobs that were submitted to a busy pool, the one
\* submitted first runs and the other still waits.
C14_Witness ==
    \E a, b \in Threads :
        /\ a < b
        /\ HadToWait(a) /\ HadToWait(b)
        /\ a \in running
        /\ pc[b] = "queued"

\* ---------------------------------------------------------------- liveness
\* C15: every job the API has accepted and handed to the pool has, from some
\* time on and for ever, a stored record with status 'completed' or 'failed'.
C15_AcceptedJobEndsTerminal ==
    \A j \in Threads :
        (pc[j] = "queued") ~> [](Has(j) /\ Terminal(Entry(j)))

\* --------------------------------------------------------------- job ids
\* The requests whose submission the API has answered with a store_id.
Answered == {t \in Threads : loc[t].store_id # None /\ pc[t] \notin {"new", "api_save", "api_submit"}}

\* C16: every submission returns a store_id that no earlier submission
\* returned, and no two stored records bear the same store_id.
C16_StoreIdsUnique ==
    /\ \A a, b \in Threads :
          (a # b /\ loc[a].store_id # None /\ loc[b].store_id # None) =>
              loc[a].store_id # loc[b].store_id
    /\ \A t \in Threads :
          loc[t].store_id # None =>
              Cardinality({i \in 1..Len(db) : Get(db[i], "store_id", None) = loc[t].store_id}) <= 1

\* C17: no two orchestrator runs execute for the same store_id at a time.
C17_OneOrchestratorPerId ==
    \A a, b \in running : a # b => loc[a].store_id # loc[b].store_id

\* ------------------------------------------------------- records and reads
\* C18: the record of every job whose submission has been answered is in the
\* store (in the last content the file held, while a write is under way).
C18_RecordNeverRemoved == \A t \in Answered : Has(t)

\* C19: a status query for a job whose record the file holds (held before the
\* write under way, if there is one) answers with that record: never 404.
C19_QueryDuringWriteFindsJob ==
    \A t \in Answered :
        Has(t) => /\ api_get_store_status(loc[t].store_id).code = 200
                  /\ load_history # <<>>

\* C20: the 'id' numbers of the stored records increase strictly in storage
\* order (and so are pairwise distinct).
C20_SequenceNumbersIncrease ==
    \A i, k \in 1..Len(db) : i < k => db[i].id < db[k].id

\* ------------------------------------------------------- progress snapshots
\* The update_entry_status call that names the stage of a service call.
SnapshotOf(op) ==
    CASE op = "create_store" -> "u10"
      [] op = "get_token" -> "u30"
      [] op = "import_products" -> "u55"
      [] op = "transfer_to_customer" -> "u85"

\* The store writes of request t that have returned.
StoreWrites(t) == {i \in 1..Len(trace[t]) : trace[t][i].op \in {"update_entry_status", "save_history"}}

\* C21: before each service call of a request, a store write naming the stage
\* of the call has returned; and after each service call a store write (the
\* checkpoint or the failure) returns before the next service call is made and
\* before the run ends.
C21_SnapshotBeforeAndAfterStage ==
    \A t \in Threads :
        \A i \in StageCalls(t) :
            /\ \E k \in StoreWrites(t) :
                  /\ k < i
                  /\ \/ trace[t][k].res = SnapshotOf(trace[t][i].op)
                     \/ /\ trace[t][k].op = "save_history"
                        /\ ~IsJob(t)
            /\ \A m \in StageCalls(t) : m > i => \E k \in StoreWrites(t) : i < k /\ k < m
            /\ Ended(t) => \E k \in StoreWrites(t) : i < k

\* The order of the values of current_step.
StepOrder == <<"queued", "create_account", "access_token", "import_products",
               "transfer_ownership", "completed">>

StepRank(step) == CHOOSE i \in 1..Len(StepOrder) : StepOrder[i] = step

\* C22: the current_step a reader finds in the record of a job never moves
\* back in the order queued, create_account, access_token, import_products,
\* transfer_ownership, completed from one content of the file to the next.
C22_CurrentStepNeverRegresses ==
    [][\A j \in Threads :
          (Has(j) /\ Has(j)') =>
              StepRank(Get(Entry(j), "current_step", "queued"))
                  <= StepRank(Get(Entry(j), "current_step", "queued"))']_vars

\* ------------------------------------------------------------ item counts
\* The number of items the import of request t returned without an error
\* (None when it made no such call).
ImportedBy(t) ==
    IF Called(t, "import_products", {"ok"})
    THEN trace[t][CHOOSE i \in Calls(t, "import_products") : trace[t][i].res = "ok"].n
    ELSE None

\* All four service calls of request t did their work.
AllStagesOk(t) ==
    /\ Called(t, "create_store", {"ok"})
    /\ Called(t, "get_token", {"ok"})
    /\ Called(t, "import_products", {"ok"})
    /\ Called(t, "transfer_to_customer", {"ok"})

\* C23: when the import of a job returned k items, fewer than requested, with
\* no error and the other stages succeeded, the job ends with a stored record
\* whose status is 'completed' and whose products_imported is k, and the
\* status query reports products_count k.
C23_PartialImportCompletes ==
    \A t \in Threads :
        (/\ IsJob(t)
         /\ Ended(t)
         /\ AllStagesOk(t)
         /\ ImportedBy(t) < loc[t].user_data["product_count"]) =>
            /\ Has(t)
            /\ Get(Entry(t), "status", None) = "completed"
            /\ Get(Entry(t), "products_imported", None) = ImportedBy(t)
            /\ LET response == api_get_store_status(loc[t].store_id)
               IN  /\ response.code = 200
                   /\ Get(response, "products_count", None) = ImportedBy(t)

\* The item counts the record of request t holds: products_imported of the
\* record and of its import_products step.
RecordedCounts(e) ==
    {Get(e, "products_imported", 0)}
        \cup {Get(e.steps[i], "products_imported", 0) : i \in 1..Len(Get(e, "steps", <<>>))}

\* C24: the number of items a request's import put into the store, and every
\* item count recorded for the request, is at most the product_count the
\* validation accepted for it.
C24_ImportedAtMostRequested ==
    \A t \in Threads :
        /\ \A i \in Calls(t, "import_products") :
              trace[t][i].n <= loc[t].user_data["product_count"]
        /\ loc[t].imported <= Get(loc[t].user_data, "product_count", 0)
        /\ Ended(t) =>
              \A i \in RecordsOf(t) :
                  \A c \in RecordedCounts(db[i]) : c <= loc[t].user_data["product_count"]

\* The import calls of request t that returned, with or without an error.
ImportReturns(t) == {i \in Calls(t, "import_products") : trace[t][i].res \in {"ok", "error"}}

\* C25: whenever the stored status of a job is 'completed', its
\* progress_percent is 100, its store_url, admin_url and completed_at are set
\* and its products_imported is the number of items its import returned.
C25_CompletedRecordComplete ==
    \A t \in Threads :
        (IsJob(t) /\ Has(t) /\ Get(Entry(t), "status", None) = "completed") =>
            /\ Get(Entry(t), "progress_percent", None) = 100
            /\ Get(Entry(t), "store_url", None) # None
            /\ Get(Entry(t), "admin_url", None) # None
            /\ Get(Entry(t), "completed_at", None) # None
            /\ ImportReturns(t) # {}
            /\ \A i \in ImportReturns(t) :
                  Get(Entry(t), "products_imported", None) = trace[t][i].n

\* ------------------------------------------------------- the initial record
\* C26: a job is handed to the pool only after save_history has returned for
\* its initial record (queued, progress_percent 0), and from then until its
\* orchestrator has made its first update the store holds that record: the
\* first update_entry_status finds it.
C26_InitialRecordBeforeRun ==
    \A j \in Threads :
        /\ \A i \in Calls(j, "submit") :
              \E k \in 1..(i - 1) : trace[j][k].res = "api_save"
        /\ (pc[j] \in {"queued", "u10"} /\ io[j].phase = "none") =>
              /\ FirstIndex(load_history, loc[j].store_id) # 0
              /\ Has(j)
              /\ Get(Entry(j), "current_step", None) = "queued"
              /\ Get(Entry(j), "progress_percent", None) = 0

\* --------------------------------------------------------------- validation
\* The requests whose handler went past the validation.
Accepted == {t \in Threads : pc[t] \notin {"new", "rejected"}}

\* The fields of an accepted request are all there and well formed: no
\* required field empty, an '@' in the email (and a '.' for the API), the
\* product_count of a form in 1..50.
WellFormed(user_data) ==
    /\ user_data.email # <<>>
    /\ user_data.store_name # <<>>
    /\ Contains(user_data.email, "@")
    /\ IF "client_name" \in DOMAIN user_data
       THEN /\ user_data.client_name # <<>>
            /\ user_data.business_type # <<>>
            /\ Contains(user_data.email, ".")
       ELSE user_data.product_count \in 1..50

\* C27: a request that went past the validation has no missing field, no
\* malformed email and no product_count outside 1..50, so a request with one
\* of these is rejected at once; and a rejected request has no store_id, no
\* record (the store never holds more records than requests were accepted),
\* no place in the pool and no service call.
C27_InvalidSubmissionRejected ==
    /\ \A t \in Accepted : pc[t] # "done" => WellFormed(loc[t].user_data)
    /\ \A t \in Threads :
          pc[t] = "rejected" =>
              /\ loc[t] = NoLocals
              /\ io[t] = NoIo
              /\ trace[t] = <<>>
              /\ drv[t] = "none"
              /\ t \notin Waiting \cup running
    /\ Len(db) <= Cardinality(Accepted)

\* C27 witness: a request was rejected and another one went through after it.
C27_Witness ==
    \E t, u \in Threads :
        /\ t < u
        /\ pc[t] = "rejected"
        /\ pc[u] = "done"
        /\ Len(db) = 1

\* ------------------------------------------------------------------ frames
\* Request t's update_entry_status call returns in this step.
UpdateReturns(t) == pc[t] \in UpdatePcs /\ pc'[t] # pc[t]

\* C28: an update_entry_status(store_id, updates) call changes, in the store,
\* exactly the fields of updates in the record with that store_id: every other
\* field of the record and every other record is after the call what it was
\* before it; without such a record the store is unchanged.  The call leaves a
\* readable file.
C28_UpdateChangesOnlyListedFields ==
    [][\A t \in Threads :
          UpdateReturns(t) =>
              LET updates == Updates(pc[t], loc[t])
                  i == FirstIndex(db, loc[t].store_id)
              IN  /\ dbValid'
                  /\ Len(db') = Len(db)
                  /\ \A k \in 1..Len(db) : k # i => db'[k] = db[k]
                  /\ i # 0 => db'[i] = DictUpdate(db[i], updates)]_vars

\* ------------------------------------------------------- unreadable storage
\* Request t reads the file while it cannot be parsed and writes it in the
\* same step: save_history or update_entry_status from load to dump.
WritesAfterFailedRead(t) ==
    /\ pc[t] \in StorePcs
    /\ io[t].phase = "none"
    /\ ~dbValid
    /\ pc'[t] # pc[t]

\* C29: while the file cannot be parsed the reads behave as on an empty store
\* (load_history is [], the status query answers 404), and the write that
\* follows such a read destroys no record that was stored before: the file
\* then holds at least the records it held, in their places.
C29_UnreadableStoreKeepsRecords ==
    [][\A t \in Threads :
          WritesAfterFailedRead(t) =>
              /\ load_history = <<>>
              /\ api_get_store_status(loc[t].store_id).code = 404
              /\ Len(db') >= Len(db)
              /\ \A i \in 1..Len(db) :
                    /\ db'[i].id = db[i].id
                    /\ db'[i].user_data = db[i].user_data]_vars

\* ------------------------------------------------------------------ queries
\* C30: a step in which a query (status by store_id, status by number, list,
\* statistics) is answered leaves the file as it was, readable or not, and
\* leaves every request, the pool and their calls as they were: whatever the
\* queries and wherever they fall in a run, the orchestrators write what they
\* would have written without them.
C30_QueriesChangeNothing ==
    [][reply' # reply =>
          /\ db' = db
          /\ dbValid' = dbValid
          /\ UNCHANGED <<pc, loc, io, queue, running, drv, trace, splits, faults>>]_vars

\* C30 witness: a status query was answered in the middle of a job's run (at
\* 55 percent), and the job has ended with its terminal record stored.
C30_Witness ==
    /\ reply.n >= 1
    /\ "progress_percent" \in DOMAIN reply.last
    /\ reply.last.progress_percent = 55
    /\ \E t \in Threads : pc[t] = "done" /\ Has(t) /\ Terminal(Entry(t))

\* --------------------------------------------------------------- statistics
\* The number of items the job of record e imported: products_imported of a
\* record of the API, the count in the import step of a record of the form route.
ItemsOf(e) ==
    IF "products_imported" \in DOMAIN e THEN e.products_imported
    ELSE StepProducts(Get(e, "steps", <<>>))

RECURSIVE ItemsOfAll(_)
ItemsOfAll(history) ==
    IF history = <<>> THEN 0 ELSE ItemsOf(Head(history)) + ItemsOfAll(Tail(history))

\* C31: total_products_imported of the statistics query is the sum, over the
\* records the file holds, of the items each job imported, whichever route
\* ran the job.
C31_StatsSumAllImportedItems ==
    dbValid => get_stats.total_products_imported = ItemsOfAll(db)

\* ----------------------------------------------------------- the two routes
\* The service calls and quit() calls of request t, in order: what was called
\* and how it ended.
ExternalCalls(t) ==
    LET P == {i \in 1..Len(trace[t]) :
                 trace[t][i].op \in {"create_store", "get_token", "import_products",
                                     "transfer_to_customer", "quit"}}
    IN  [k \in 1..Cardinality(P) |->
            LET i == CHOOSE i \in P : Cardinality({m \in P : m <= i}) = k
            IN  <<trace[t][i].op, trace[t][i].res>>]

\* C32: a job of the API and a form post whose calls so far ended alike have
\* made the same calls (service calls and quit) in the same order; when both
\* have ended with the same outcomes of their calls, they made the same number
\* of calls and wrote the same terminal status.
C32_RoutesBehaveAlike ==
    \A a, b \in Threads :
        (IsJob(a) /\ ~IsJob(b) /\ trace[b] # <<>>) =>
            LET A == ExternalCalls(a)
                B == ExternalCalls(b)
            IN  /\ \A k \in 1..Min(Len(A), Len(B)) :
                      (\A m \in 1..(k - 1) : A[m] = B[m]) => A[k][1] = B[k][1]
                /\ (Ended(a) /\ Ended(b) /\ IsPrefix(A, B)) =>
                      /\ A = B
                      /\ EndedCompleted(a) <=> EndedCompleted(b)
                      /\ EndedFailed(a) <=> EndedFailed(b)
                /\ (Ended(a) /\ Ended(b) /\ IsPrefix(B, A)) => A = B

\* C32 witness: a job of the API and a form post have both ended 'failed'
\* after the same calls, the last service call of each having failed.
C32_Witness ==
    \E a, b \in Threads :
        /\ IsJob(a) /\ ~IsJob(b)
        /\ Ended(a) /\ Ended(b)
        /\ EndedFailed(a) /\ EndedFailed(b)
        /\ ExternalCalls(a) = ExternalCalls(b)
        /\ Len(ExternalCalls(a)) >= 3

\* ------------------------------------------------------------ item counts
\* C33: every request for which a service call was made has a product_count
\* in 1..50; for a job of the API it is 5, in the orchestrator's arguments, in
\* the initial entry and in the stored record.
C33_RequestedCountInRange ==
    \A t \in Threads :
        /\ StageCalls(t) # {} => loc[t].user_data["product_count"] \in 1..50
        /\ loc[t].store_id # None /\ pc[t] # "done" =>
              /\ loc[t].user_data["product_count"] = ForcedCount
              /\ loc[t].entry.user_data["product_count"] = ForcedCount
        /\ Has(t) => Entry(t).user_data["product_count"] = ForcedCount

\* C33 witness: a job of the API and a form post have both made a service call.
C33_Witness ==
    \E a, b \in Threads :
        /\ IsJob(a) /\ StageCalls(a) # {} /\ Has(a)
        /\ ~IsJob(b) /\ StageCalls(b) # {}


\* ------------------------------------------------------------ keyword filter
\* A text of a product in lower case, empty when the product has no such key.
TextOf(product, key) == IF key \in DOMAIN product THEN Lower(product[key]) ELSE <<>>

\* The title of a product; a product without a title goes by its name.
TitleOf(product) ==
    IF "title" \in DOMAIN product THEN TextOf(product, "title") ELSE TextOf(product, "name")

\* The keywords of one kind, in lower case; none when the kind is not given.
Words(keywords_dict, kind) ==
    IF kind \in DOMAIN keywords_dict
    THEN {Lower(keywords_dict[kind][n]) : n \in 1..Len(keywords_dict[kind])}
    ELSE {}

\* The four conditions on one product.
Satisfies(product, keywords_dict, strict_mode) ==
    /\ ("expected_product_type" \in DOMAIN keywords_dict /\ keywords_dict.expected_product_type # <<>>)
          => \/ TextOf(product, "product_type") = <<>>
             \/ TextOf(product, "product_type") = keywords_dict.expected_product_type
    /\ \A w \in Words(keywords_dict, "negative") : ~In(w, TitleOf(product))
    /\ Words(keywords_dict, "required") # {}
          => \E w \in Words(keywords_dict, "required") : In(w, TitleOf(product))
    /\ Words(keywords_dict, "positive") # {}
          => \E w \in Words(keywords_dict, "positive") :
                 IF strict_mode THEN In(w, TitleOf(product))
                 ELSE In(w, TitleOf(product) \o <<" ">> \o TextOf(product, "description"))

\* The products of a list that satisfy the four conditions, in the order of
\* the list.
RECURSIVE Satisfying(_, _, _)
Satisfying(products, keywords_dict, strict_mode) ==
    IF products = <<>> THEN <<>>
    ELSE (IF Satisfies(Head(products), keywords_dict, strict_mode) THEN <<Head(products)>> ELSE <<>>)
         \o Satisfying(Tail(products), keywords_dict, strict_mode)

\* C34: the keyword filter returns exactly the products of its input, in the
\* order of the input, that satisfy all four conditions: (1) the product type
\* is empty or is the expected type when one is given, (2) no negative keyword
\* occurs in the title, (3) when required keywords are given one of them
\* occurs in the title, (4) when positive keywords are given one of them
\* occurs in the title (strict mode) or in the title plus the description
\* (non-strict mode). Texts are compared in lower case, as the filter's own
\* tests expect.
C34_FilterKeepsExactlyTheMatching ==
    (svc.fn = "_filter_by_keywords" /\ svc.at = "returned")
        => svc.result = Satisfying(svc.products, svc.keywords_dict, svc.strict_mode)

\* C34 witness: in non-strict mode the filter has rejected the first product
\* for its type and returned the second, whose positive keyword occurs in its
\* description only and whose description holds a negative keyword.
C34_Witness ==
    /\ svc.fn = "_filter_by_keywords"
    /\ svc.at = "returned"
    /\ ~svc.strict_mode
    /\ Len(svc.products) = 2
    /\ svc.rejected = <<"type", "none">>
    /\ svc.result = <<svc.products[2]>>
    /\ Words(svc.keywords_dict, "positive") = {<<"b">>}
    /\ Words(svc.keywords_dict, "negative") = {<<"b">>}
    /\ ~In(<<"b">>, TitleOf(svc.products[2]))
    /\ In(<<"b">>, TextOf(svc.products[2], "description"))

\* ------------------------------------------------------ inside the services
\* The names of the steps a service call has invoked so far, in order.
NamesCalled == [i \in 1..Len(svc.called) |-> svc.called[i].name]

\* The steps of get_token invoked so far that failed.
TokenFailures == {i \in 1..Len(svc.called) : ~svc.called[i].ok}

\* C35: get_token never raises; it invokes its eight steps in the fixed order
\* (dev dashboard, create app, scopes, release, settings, credentials,
\* install, token request) and none after the first that fails; it returns
\* None after a failure and a non-empty token only when all eight steps have
\* succeeded; and it never closes the session handle it was given.
C35_TokenStepsInOrderNoRaise ==
    svc.fn = "get_token" =>
        /\ svc.outcome # "raised"
        /\ NamesCalled = SubSeq(TokenSteps, 1, Len(svc.called))
        /\ TokenFailures \subseteq {Len(svc.called)}
        /\ svc.outcome = "returned" =>
              /\ svc.result.token \in AccessTokenManager_get_token(svc.driver)
              /\ svc.result.token # None <=> (Len(svc.called) = Len(TokenSteps) /\ TokenFailures = {})
        /\ svc.browser = (IF svc.driver = None THEN "none" ELSE "open")

\* C35 witness: get_token has returned None after its third step failed, the
\* session handle still open and the last five steps never invoked.
C35_Witness ==
    /\ svc.fn = "get_token"
    /\ svc.outcome = "returned"
    /\ svc.result.token = None
    /\ Len(svc.called) = 3
    /\ TokenFailures = {3}
    /\ svc.browser = "open"

\* The steps of create_store invoked so far that did not succeed and that the
\* method does not tolerate.
CreateFatal ==
    {i \in 1..Len(svc.called) : svc.called[i].res # "ok" /\ svc.called[i].name \notin CreateTolerated}

\* C36: create_store either returns a record with a non-empty store_url
\* together with a session that is still open, or raises after it has closed
\* its browser: it never returns a closed or missing session, never raises
\* with its browser left open, and the failures of select_country and of
\* change_store_password alone do not make it raise.
C36_ReturnsOpenOrRaisesClosed ==
    svc.fn = "create_store" =>
        /\ svc.outcome = "returned" =>
              /\ svc.result.store_url # ""
              /\ svc.result.driver # None
              /\ svc.browser = "open"
        /\ svc.outcome = "raised" => svc.browser # "open"
        /\ svc.outcome = "raised" => CreateFatal # {}

\* The steps of transfer_to_customer invoked so far that returned False.
TransferFailures == {i \in 1..Len(svc.called) : ~svc.called[i].ok}

\* C37: transfer_to_customer invokes its eight steps in the fixed order and
\* stops at the first that returns false; it returns a result with success
\* False and an error instead of raising; its browser is closed on every path
\* on which it was opened; and success is True only when all eight steps have
\* succeeded.
C37_TransferStopsReportsCloses ==
    svc.fn = "transfer_to_customer" =>
        /\ NamesCalled = SubSeq(TransferSteps, 1, Len(svc.called))
        /\ TransferFailures \subseteq {Len(svc.called)}
        /\ svc.outcome # "raised"
        /\ svc.outcome = "returned" =>
              /\ svc.result.success <=> (Len(svc.called) = Len(TransferSteps) /\ TransferFailures = {})
              /\ ~svc.result.success => svc.result.error # ""
        /\ (svc.outcome # "running" /\ svc.driver # None) => svc.browser = "closed"

\* ------------------------------------------------------- statistics buckets
\* C38: in the statistics every record of the history is counted in exactly
\* one of the buckets completed, failed and in_progress, so that the three
\* add up to total_stores, jobs of the API that have not ended included.
C38_BucketsAddUpToTotal ==
    LET stats == get_stats
    IN  stats.completed + stats.failed + stats.in_progress = stats.total_stores
====
